---- MODULE Spec2Model ----
(***************************************************************************)
(* A model of github.com/dstotijn/exp-notif-crypto: the Exposure           *)
(* Notification key schedule of crypto.go (interval numbers, HKDF-SHA256   *)
(* key derivation, the AES-128 rolling proximity identifier, AES-128-CTR   *)
(* metadata encryption) and the matching loop of the two demo mains.       *)
(*                                                                         *)
(* Numbers wider than TLC's integers are kept in 16-bit limbs: a uint32 is *)
(* the pair <<hi, lo>>, an int64 a sign and four limbs.  The library       *)
(* primitives the code calls (crypto/aes, crypto/cipher CTR, crypto/sha256,*)
(* crypto/hmac, x/crypto/hkdf, bytes.Equal) are modelled bit-exactly.      *)
(***************************************************************************)
EXTENDS Integers, Sequences, FiniteSets, TLC

(***************************************************************************)
(* Bytes and byte slices.                                                  *)
(***************************************************************************)
Byte == 0..255

\* The byte slice holding the elements of f (a function on 1..n), in order.
Bytes(f) == f \o << >>

Zeros(n) == Bytes([j \in 1..n |-> 0])

RECURSIVE BitOp(_, _, _, _)
BitOp(op, a, b, n) ==
  IF n = 0 THEN 0
  ELSE LET x == a % 2
           y == b % 2
           z == IF op = "xor" THEN (x + y) % 2 ELSE x * y
       IN z + 2 * BitOp(op, a \div 2, b \div 2, n - 1)

XorTab == Bytes([a \in 1..256 |-> Bytes([b \in 1..256 |-> BitOp("xor", a - 1, b - 1, 8)])])
AndTab == Bytes([a \in 1..256 |-> Bytes([b \in 1..256 |-> BitOp("and", a - 1, b - 1, 8)])])

Xor8(a, b) == XorTab[a + 1][b + 1]
And8(a, b) == AndTab[a + 1][b + 1]

\* dst[i] = a[i] ^ b[i] over the length of a (b is at least as long).
XorBytes(a, b) == Bytes([j \in 1..Len(a) |-> Xor8(a[j], b[j])])

(***************************************************************************)
(* crypto/aes: AES-128 (FIPS 197).  A block is 16 bytes, column-major.     *)
(***************************************************************************)
SBox == <<
     99, 124, 119, 123, 242, 107, 111, 197,  48,   1, 103,  43, 254, 215, 171, 118,
    202, 130, 201, 125, 250,  89,  71, 240, 173, 212, 162, 175, 156, 164, 114, 192,
    183, 253, 147,  38,  54,  63, 247, 204,  52, 165, 229, 241, 113, 216,  49,  21,
      4, 199,  35, 195,  24, 150,   5, 154,   7,  18, 128, 226, 235,  39, 178, 117,
      9, 131,  44,  26,  27, 110,  90, 160,  82,  59, 214, 179,  41, 227,  47, 132,
     83, 209,   0, 237,  32, 252, 177,  91, 106, 203, 190,  57,  74,  76,  88, 207,
    208, 239, 170, 251,  67,  77,  51, 133,  69, 249,   2, 127,  80,  60, 159, 168,
     81, 163,  64, 143, 146, 157,  56, 245, 188, 182, 218,  33,  16, 255, 243, 210,
    205,  12,  19, 236,  95, 151,  68,  23, 196, 167, 126,  61, 100,  93,  25, 115,
     96, 129,  79, 220,  34,  42, 144, 136,  70, 238, 184,  20, 222,  94,  11, 219,
    224,  50,  58,  10,  73,   6,  36,  92, 194, 211, 172,  98, 145, 149, 228, 121,
    231, 200,  55, 109, 141, 213,  78, 169, 108,  86, 244, 234, 101, 122, 174,   8,
    186, 120,  37,  46,  28, 166, 180, 198, 232, 221, 116,  31,  75, 189, 139, 138,
    112,  62, 181, 102,  72,   3, 246,  14,  97,  53,  87, 185, 134, 193,  29, 158,
    225, 248, 152,  17, 105, 217, 142, 148, 155,  30, 135, 233, 206,  85,  40, 223,
    140, 161, 137,  13, 191, 230,  66, 104,  65, 153,  45,  15, 176,  84, 187,  22 >>

SubByte(b) == SBox[b + 1]

\* Multiplication by x in GF(2^8) modulo x^8 + x^4 + x^3 + x + 1.
Xtime(b) == IF 2 * b >= 256 THEN Xor8(2 * b - 256, 27) ELSE 2 * b

Mul2Tab == Bytes([b \in 1..256 |-> Xtime(b - 1)])
Mul3Tab == Bytes([b \in 1..256 |-> Xor8(Xtime(b - 1), b - 1)])
Mul2(b) == Mul2Tab[b + 1]
Mul3(b) == Mul3Tab[b + 1]

\* The key schedule: 11 round keys of 16 bytes; rc is the round constant.
RECURSIVE ExpandKey(_, _)
ExpandKey(w, rc) ==
  IF Len(w) >= 176 THEN w
  ELSE LET n == Len(w)
           p == SubSeq(w, n - 3, n)
           q == SubSeq(w, n - 15, n - 12)
           t == IF n % 16 = 0
                  THEN << Xor8(SubByte(p[2]), rc), SubByte(p[3]),
                          SubByte(p[4]), SubByte(p[1]) >>
                  ELSE p
       IN ExpandKey(w \o XorBytes(q, t), IF n % 16 = 0 THEN Xtime(rc) ELSE rc)

SubBytes(s) == Bytes([j \in 1..16 |-> SubByte(s[j])])

ShiftRows(s) ==
  Bytes([j \in 1..16 |->
           LET c == (j - 1) \div 4
               r == (j - 1) % 4
           IN s[4 * ((c + r) % 4) + r + 1]])

Xor4(a, b, c, dv) == Xor8(Xor8(a, b), Xor8(c, dv))

MixColumns(s) ==
  Bytes([j \in 1..16 |->
           LET c == 4 * ((j - 1) \div 4)
               r == (j - 1) % 4
               a0 == s[c + 1]
               a1 == s[c + 2]
               a2 == s[c + 3]
               a3 == s[c + 4]
           IN CASE r = 0 -> Xor4(Mul2(a0), Mul3(a1), a2, a3)
                [] r = 1 -> Xor4(a0, Mul2(a1), Mul3(a2), a3)
                [] r = 2 -> Xor4(a0, a1, Mul2(a2), Mul3(a3))
                [] OTHER -> Xor4(Mul3(a0), a1, a2, Mul2(a3))])

AddRoundKey(s, w, rnd) == Bytes([j \in 1..16 |-> Xor8(s[j], w[16 * rnd + j])])

\* Rounds rnd..10 on the state s (a state that is not a block is left alone).
RECURSIVE AesRounds(_, _, _)
AesRounds(s, w, rnd) ==
  IF rnd > 10 \/ Len(s) # 16 THEN s
  ELSE LET a == ShiftRows(SubBytes(s))
           b == IF rnd < 10 THEN MixColumns(a) ELSE a
       IN AesRounds(AddRoundKey(b, w, rnd), w, rnd + 1)

\* aes.NewCipher(key): the expanded key of a 16-byte key.
NewCipher(key) == ExpandKey(key, 1)

\* block.Encrypt(dst, src): one block under the expanded key w.
Encrypt(w, src) == AesRounds(AddRoundKey(src, w, 0), w, 1)

(***************************************************************************)
(* cipher.NewCTR(block, iv) and stream.XORKeyStream(dst, src): the counter *)
(* block starts at iv and is incremented as a 128-bit big-endian number.   *)
(***************************************************************************)
RECURSIVE IncCounter(_, _)
IncCounter(ctr, j) ==
  IF j = 0 THEN ctr
  ELSE IF ctr[j] = 255 THEN IncCounter([ctr EXCEPT ![j] = 0], j - 1)
  ELSE [ctr EXCEPT ![j] = ctr[j] + 1]

RECURSIVE XORKeyStream(_, _, _, _)
XORKeyStream(w, ctr, dst, src) ==
  IF Len(src) = 0 THEN dst
  ELSE LET n == IF Len(src) < 16 THEN Len(src) ELSE 16
           ks == Encrypt(w, ctr)
       IN XORKeyStream(w, IncCounter(ctr, 16),
                       dst \o XorBytes(SubSeq(src, 1, n), ks),
                       SubSeq(src, n + 1, Len(src)))

(***************************************************************************)
(* 32-bit words as <<hi, lo>>, two 16-bit limbs.                           *)
(***************************************************************************)
Limb == 2 ^ 16

Xor16(a, b) == 256 * Xor8(a \div 256, b \div 256) + Xor8(a % 256, b % 256)
And16(a, b) == 256 * And8(a \div 256, b \div 256) + And8(a % 256, b % 256)

WXor(x, y) == << Xor16(x[1], y[1]), Xor16(x[2], y[2]) >>
WAnd(x, y) == << And16(x[1], y[1]), And16(x[2], y[2]) >>
WNot(x) == << 65535 - x[1], 65535 - x[2] >>
WAdd(x, y) ==
  LET l == x[2] + y[2]
      h == x[1] + y[1] + (l \div Limb)
  IN << h % Limb, l % Limb >>

RECURSIVE RotR(_, _)
RotR(x, n) ==
  IF n >= 16 THEN RotR(<< x[2], x[1] >>, n - 16)
  ELSE LET p == 2 ^ n
           q == 2 ^ (16 - n)
       IN << (x[1] \div p) + (x[2] % p) * q, (x[2] \div p) + (x[1] % p) * q >>

\* x >> n for n < 16.
ShR(x, n) ==
  LET p == 2 ^ n
      q == 2 ^ (16 - n)
  IN << x[1] \div p, (x[2] \div p) + (x[1] % p) * q >>

(***************************************************************************)
(* crypto/sha256 (FIPS 180-4).                                             *)
(***************************************************************************)
ShaK == <<
    <<17034, 12184>>, <<28983, 17553>>, <<46528, 64463>>, <<59829, 56229>>,
    <<14678, 49755>>, <<23025, 4593>>, <<37439, 33444>>, <<43804, 24277>>,
    <<55303, 43672>>, <<4739, 23297>>, <<9265, 34238>>, <<21772, 32195>>,
    <<29374, 23924>>, <<32990, 45566>>, <<39900, 1703>>, <<49563, 61812>>,
    <<58523, 27073>>, <<61374, 18310>>, <<4033, 40390>>, <<9228, 41420>>,
    <<11753, 11375>>, <<19060, 33962>>, <<23728, 43484>>, <<30457, 35034>>,
    <<38974, 20818>>, <<43057, 50797>>, <<45059, 10184>>, <<48985, 32711>>,
    <<50912, 3059>>, <<54695, 37191>>, <<1738, 25425>>, <<5161, 10599>>,
    <<10167, 2693>>, <<11803, 8504>>, <<19756, 28156>>, <<21304, 3347>>,
    <<25866, 29524>>, <<30314, 2747>>, <<33218, 51502>>, <<37490, 11397>>,
    <<41663, 59553>>, <<43034, 26187>>, <<49739, 35696>>, <<51052, 20899>>,
    <<53650, 59417>>, <<54937, 1572>>, <<62478, 13701>>, <<4202, 41072>>,
    <<6564, 49430>>, <<7735, 27656>>, <<10056, 30540>>, <<13488, 48309>>,
    <<14620, 3251>>, <<20184, 43594>>, <<23452, 51791>>, <<26670, 28659>>,
    <<29839, 33518>>, <<30885, 25455>>, <<33992, 30740>>, <<36039, 520>>,
    <<37054, 65530>>, <<42064, 27883>>, <<48889, 41975>>, <<50801, 30962>> >>

ShaInit == << <<27145, 58983>>, <<47975, 44677>>, <<15470, 62322>>, <<42319, 62778>>,
     <<20750, 21119>>, <<39685, 26764>>, <<8067, 55723>>, <<23520, 52505>> >>

Ch(x, y, z) == WXor(WAnd(x, y), WAnd(WNot(x), z))
Maj(x, y, z) == WXor(WXor(WAnd(x, y), WAnd(x, z)), WAnd(y, z))
BigSigma0(x) == WXor(WXor(RotR(x, 2), RotR(x, 13)), RotR(x, 22))
BigSigma1(x) == WXor(WXor(RotR(x, 6), RotR(x, 11)), RotR(x, 25))
SmallSigma0(x) == WXor(WXor(RotR(x, 7), RotR(x, 18)), ShR(x, 3))
SmallSigma1(x) == WXor(WXor(RotR(x, 17), RotR(x, 19)), ShR(x, 10))

\* The message schedule of one 64-byte block: 64 words.
RECURSIVE Schedule(_)
Schedule(w) ==
  IF Len(w) >= 64 THEN w
  ELSE LET t == Len(w) + 1
       IN Schedule(Append(w, WAdd(WAdd(SmallSigma1(w[t - 2]), w[t - 7]),
                                  WAdd(SmallSigma0(w[t - 15]), w[t - 16]))))

BlockWords(blk) ==
  Bytes([j \in 1..16 |-> << 256 * blk[4 * j - 3] + blk[4 * j - 2],
                            256 * blk[4 * j - 1] + blk[4 * j] >>])

\* One round: the working variables after it, from T1 and T2.
ShaRound(st, t1, t2) ==
  << WAdd(t1, t2), st[1], st[2], st[3], WAdd(st[4], t1), st[5], st[6], st[7] >>

\* Rounds t..64 of the compression function on the working variables st.
RECURSIVE ShaRounds(_, _, _)
ShaRounds(st, w, t) ==
  IF t > 64 \/ Len(st) # 8 THEN st
  ELSE ShaRounds(ShaRound(st,
                           WAdd(WAdd(WAdd(st[8], BigSigma1(st[5])),
                                     WAdd(Ch(st[5], st[6], st[7]), ShaK[t])), w[t]),
                           WAdd(BigSigma0(st[1]), Maj(st[1], st[2], st[3]))),
                 w, t + 1)

AddWords(h, st) == Bytes([j \in 1..8 |-> WAdd(h[j], st[j])])

Compress(h, blk) == AddWords(h, ShaRounds(h, Schedule(BlockWords(blk)), 1))

RECURSIVE ShaBlocks(_, _)
ShaBlocks(h, data) ==
  IF Len(data) < 64 \/ Len(h) # 8 THEN h
  ELSE ShaBlocks(Compress(h, SubSeq(data, 1, 64)), SubSeq(data, 65, Len(data)))

\* The padding: 0x80, zeros up to 56 mod 64, the length in bits as 8 bytes.
ShaPad(n) ==
  LET z == (55 - n) % 64
      bits == 8 * n
  IN << 128 >> \o Zeros(z) \o
     << 0, 0, 0, 0, bits \div 16777216, (bits \div 65536) % 256,
        (bits \div 256) % 256, bits % 256 >>

WordBytes(x) == << x[1] \div 256, x[1] % 256, x[2] \div 256, x[2] % 256 >>

Digest(h) ==
  WordBytes(h[1]) \o WordBytes(h[2]) \o WordBytes(h[3]) \o WordBytes(h[4]) \o
  WordBytes(h[5]) \o WordBytes(h[6]) \o WordBytes(h[7]) \o WordBytes(h[8])

Sha256(msg) == Digest(ShaBlocks(ShaInit, msg \o ShaPad(Len(msg))))

(***************************************************************************)
(* crypto/hmac with SHA-256, and golang.org/x/crypto/hkdf (RFC 5869).      *)
(***************************************************************************)
\* The key as one block: hashed if longer than a block, then zero-padded.
HmacKey(key) == IF Len(key) > 64 THEN Sha256(key) ELSE key

PadKey(k0) == k0 \o Zeros(64 - Len(k0))

XorPad(k, pad) == Bytes([j \in 1..64 |-> Xor8(k[j], pad)])

HmacBlock(k, msg) == Sha256(XorPad(k, 92) \o Sha256(XorPad(k, 54) \o msg))

Hmac(key, msg) == HmacBlock(PadKey(HmacKey(key)), msg)

\* hkdf.Extract: a nil salt is a string of HashLen zeros.
HkdfExtract(secret, salt) ==
  Hmac(IF Len(salt) = 0 THEN Zeros(32) ELSE salt, secret)

\* hkdf.Expand: T(i) = HMAC(prk, T(i-1) | info | i), read until n bytes.
RECURSIVE HkdfExpand(_, _, _, _, _, _), HkdfExpandNext(_, _, _, _, _, _)
HkdfExpand(prk, info, n, prev, j, out) ==
  IF Len(out) >= n THEN SubSeq(out, 1, n)
  ELSE HkdfExpandNext(prk, info, n, Hmac(prk, prev \o info \o << j >>), j, out)

HkdfExpandNext(prk, info, n, t, j, out) ==
  HkdfExpand(prk, info, n, t, j + 1, out \o t)

(***************************************************************************)
(* Integers of the code's widths.  A uint32 is <<hi, lo>>; the magnitude   *)
(* of an int64 is four limbs, most significant first.                      *)
(***************************************************************************)
\* uint32(n) for a natural number n below 2^31.
U32(n) == << n \div Limb, n % Limb >>

Add32(x, y) == WAdd(x, y)

\* -x modulo 2^32.
Neg32(x) == WAdd(WNot(x), U32(1))

Sub32(x, y) == Add32(x, Neg32(y))

\* x < y and x <= y as unsigned numbers.
Less32(x, y) == x[1] < y[1] \/ (x[1] = y[1] /\ x[2] < y[2])
Leq32(x, y) == x = y \/ Less32(x, y)

\* Long division of the limbs mag by d (d < 2^15): <<quotient, remainder>>.
RECURSIVE LongDiv(_, _, _, _, _)
LongDiv(mag, dv, j, rem, out) ==
  IF j > Len(mag) THEN << out, rem >>
  ELSE LET cur == rem * Limb + mag[j]
       IN LongDiv(mag, dv, j + 1, cur % dv, Append(out, cur \div dv))

\* mag * k + c on limbs (k < 2^15), keeping Len(mag) limbs (the carry out
\* of the top limb is dropped, as the fixed width drops it).
RECURSIVE LongMulAdd(_, _, _, _)
LongMulAdd(mag, k, c, j) ==
  IF j = 0 THEN mag
  ELSE LET cur == mag[j] * k + c
       IN LongMulAdd([mag EXCEPT ![j] = cur % Limb], k, cur \div Limb, j - 1)

\* mag - c on limbs, for c <= mag.
RECURSIVE LongSub(_, _, _)
LongSub(mag, c, j) ==
  IF j = 0 \/ c = 0 THEN mag
  ELSE IF mag[j] >= c THEN [mag EXCEPT ![j] = mag[j] - c]
  ELSE LongSub([mag EXCEPT ![j] = mag[j] + Limb - c], 1, j - 1)

Div32(x, dv) == LongDiv(x, dv, 1, 0, << >>)[1]
Mod32(x, dv) == LongDiv(x, dv, 1, 0, << >>)[2]
Mul32(x, k) == LongMulAdd(x, k, 0, 2)

\* An int64: a sign and a magnitude; zero is never negative.
Int64(neg, mag) == [neg |-> neg /\ mag # << 0, 0, 0, 0 >>, mag |-> mag]

\* t + k for a natural number k < 2^15.
Int64AddSmall(t, k) ==
  IF ~t.neg THEN Int64(FALSE, LongMulAdd(t.mag, 1, k, 4))
  ELSE IF t.mag[1] = 0 /\ t.mag[2] = 0 /\ t.mag[3] = 0 /\ t.mag[4] < k
         THEN Int64(FALSE, << 0, 0, 0, k - t.mag[4] >>)
         ELSE Int64(TRUE, LongSub(t.mag, k, 4))

\* Go's t / d on int64: the quotient truncated toward zero.
Int64Quo(t, dv) == Int64(t.neg, LongDiv(t.mag, dv, 1, 0, << >>)[1])

\* Go's conversion uint32(v) of an int64: the low 32 bits of two's complement.
Uint32OfInt64(v) ==
  LET low == << v.mag[3], v.mag[4] >>
  IN IF v.neg THEN Neg32(low) ELSE low

(***************************************************************************)
(* crypto.go                                                               *)
(***************************************************************************)
EKRollingPeriod == 144

\* A time.Time is modelled by its t.Unix(), an int64 of seconds since the
\* epoch.  t.Add(d) for a duration of d whole seconds:
TimeAdd(t, dv) == Int64AddSmall(t, dv)

NewENIntervalNumber(t) == Uint32OfInt64(Int64Quo(t, 60 * 10))

\* Faulty rolling start numbers: the interval number itself, and the
\* quotient without the multiplication.
RollingStartUnaligned(t) == NewENIntervalNumber(t)
RollingStartQuotient(t) == Div32(NewENIntervalNumber(t), EKRollingPeriod)

NewRollingStartNumber(t) ==
  Mul32(Div32(NewENIntervalNumber(t), EKRollingPeriod), EKRollingPeriod)

\* A faulty encoding: only the low byte of the number is written.
PutUint32LowByte(x) == << x[2] % 256, 0, 0, 0 >>

\* binary.LittleEndian.PutUint32
PutUint32(x) == << x[2] % 256, x[2] \div 256, x[1] % 256, x[1] \div 256 >>

\* []byte("..."): the ASCII labels the code uses.
InfoRPIK == << 69, 78, 45, 82, 80, 73, 75 >>
InfoAEMK == << 67, 84, 45, 65, 69, 77, 75 >>
LabelRPI == << 69, 78, 45, 82, 80, 73 >>

\* hkdf.New(sha256.New, in[:], nil, info) and io.ReadFull of 16 bytes.
derivedKey(in, info) ==
  HkdfExpand(HkdfExtract(in, << >>), info, 16, << >>, 1, << >>)

\* The temporary exposure keys crypto/rand hands out in the sampled runs.
SampleTEKSeq ==
  << << 0, 1, 2, 3, 4, 5, 6, 7, 8, 9, 10, 11, 12, 13, 14, 15 >>,
     << 143, 27, 202, 9, 88, 231, 64, 19, 170, 5, 117, 250, 33, 96, 181, 72 >> >>

SampleTEKs == { SampleTEKSeq[n] : n \in 1..Len(SampleTEKSeq) }

\* derivedKey of the sampled keys, computed once: derivedKey is a pure
\* function, and this table only spares recomputing it in every state.
DerivedKeys ==
  Bytes([n \in 1..Len(SampleTEKSeq) |->
           Bytes([j \in 1..2 |->
                    derivedKey(SampleTEKSeq[n],
                               IF j = 1 THEN InfoRPIK ELSE InfoAEMK)])])

DerivedKeyOf(in, info) ==
  IF in \in SampleTEKs /\ info \in { InfoRPIK, InfoAEMK }
    THEN DerivedKeys[CHOOSE n \in 1..Len(SampleTEKSeq) : SampleTEKSeq[n] = in]
                    [IF info = InfoRPIK THEN 1 ELSE 2]
    ELSE derivedKey(in, info)

NewRollingProximityIdentifierKey(key) == DerivedKeyOf(key, InfoRPIK)

NewAssociatedEncryptedMetadataKey(key) == DerivedKeyOf(key, InfoAEMK)

\* A faulty padded data: the interval number is never written.
PaddedDataNoInterval(num) == LabelRPI \o Zeros(6) \o Zeros(4)

\* paddedData: "EN-RPI", six zero bytes, the interval number.
PaddedData(num) == LabelRPI \o Zeros(6) \o PutUint32(num)

NewRollingProximityIdentifier(key, num) ==
  Encrypt(NewCipher(key), PaddedData(num))

\* A faulty key stream: a destination of one cipher block, whatever the
\* length of the source.
keyStreamOneBlock(key, iv, src) ==
  XORKeyStream(NewCipher(key), iv, << >>,
               SubSeq(src, 1, IF Len(src) < 16 THEN Len(src) ELSE 16))

keyStream(key, iv, src) == XORKeyStream(NewCipher(key), iv, << >>, src)

XORKeyStreamAssociatedMetadata(key, id, data) == keyStream(key, id, data)

(***************************************************************************)
(* Sample inputs.  A time is ((window * 144 + off) * 600 + s) seconds      *)
(* before or after the epoch.                                              *)
(***************************************************************************)
\* Offsets 0..Span and 143-Span..143 of a window are sampled.
Span == 1

\* Window numbers: the epoch's, one of the year 2026, the last window that
\* starts below 2^32 intervals (it is cut short by the uint32 range) and
\* the first beyond it.
SampleWindows == { 0, 20720, 29826161, 29826162 }

SampleOffsets == (0..Span) \cup ((EKRollingPeriod - 1 - Span)..(EKRollingPeriod - 1))

SampleSeconds == { 0, 1, 60 * 10 - 1 }

TimeOf(neg, window, off, sec) ==
  Int64(neg, LongMulAdd(LongMulAdd(<< 0, 0, window \div Limb, window % Limb >>,
                                   EKRollingPeriod, off, 4),
                        60 * 10, sec, 4))

ClockTimes ==
  { TimeOf(neg, win, off, sec) :
      neg \in BOOLEAN, win \in SampleWindows, off \in SampleOffsets,
      sec \in SampleSeconds }

(***************************************************************************)
(* State.                                                                  *)
(***************************************************************************)
VARIABLES
  clock,     \* a caller of NewENIntervalNumber and NewRollingStartNumber
  trip,      \* a caller that encrypts metadata and decrypts it again
  pool,      \* matching evaluations run by concurrent workers, and the heap
  cmp,       \* one comparison of a candidate identifier with an observed one
  env,       \* what a main reads from outside: the clock, crypto/rand
  variant,   \* which of the two mains runs (1: part_000:11-90, 2: 102-193)
  pc,        \* the main's position
  tek, rollingStartNumber, rpik, aemk, enin, rpi, aem,
  downloadedDiagKeys, receivedRPI, receivedAEM,
  d,         \* the index of the diagnosis key the range loop is at
  derivedRPIK, derivedAEMK, i, match,
  scanned,   \* the candidates evaluated for the current key, in order
  log,       \* the verdicts logged so far, one per diagnosis key
  finished   \* what each variant that has run to its end computed

\* The state of the callers other than the mains.
sideVars == << clock, trip, pool, cmp >>

mainVars == << env, variant, pc, tek, rollingStartNumber, rpik, aemk, enin, rpi,
               aem, downloadedDiagKeys, receivedRPI, receivedAEM, d,
               derivedRPIK, derivedAEMK, i, match, scanned, log, finished >>

vars == << sideVars, mainVars >>

(***************************************************************************)
(* The interval clock: a caller passes one time to both functions.         *)
(* Neither function has an error result or a panic (crypto.go:58-66), so   *)
(* every call returns a value.                                             *)
(***************************************************************************)
Returned(v) == [panicked |-> FALSE, value |-> v]

NoResult == [panicked |-> FALSE, value |-> << >>]

ClockIdle == [pc |-> "idle", t |-> Int64(FALSE, << 0, 0, 0, 0 >>),
              enin |-> NoResult, start |-> NoResult]

ClockCalls ==
  \E t \in ClockTimes :
    clock = [pc |-> "call", t |-> t, enin |-> NoResult, start |-> NoResult]

CallNewENIntervalNumber ==
  /\ clock.pc = "call"
  /\ clock' = [clock EXCEPT !.pc = "called",
                            !.enin = Returned(NewENIntervalNumber(clock.t))]
  /\ UNCHANGED << trip, pool, cmp, mainVars >>

CallNewRollingStartNumber ==
  /\ clock.pc = "called"
  /\ clock' = [clock EXCEPT !.pc = "done",
                            !.start = Returned(NewRollingStartNumber(clock.t))]
  /\ UNCHANGED << trip, pool, cmp, mainVars >>

(***************************************************************************)
(* The demo main (src/unnamed/part_000), in its two variants, and the      *)
(* matching loop it ends with.  What a run reads from outside is fixed in  *)
(* env: the clock at the first time.Now(), the seconds that pass until the *)
(* second time.Now(), and the keys crypto/rand hands out, in order.        *)
(***************************************************************************)
Nil == << >>

\* []byte("bluetooth metadata...")
Metadata == << 98, 108, 117, 101, 116, 111, 111, 116, 104, 32, 109, 101, 116,
               97, 100, 97, 116, 97, 46, 46, 46 >>

\* crypto.NewTemporaryExposureKey(): the next 16 bytes of crypto/rand.
NewTemporaryExposureKey(n) == env.rand[n]

\* The first variant's entry points, which crypto.go no longer has: the
\* metadata cipher under its earlier names.
NewAssociatedEncryptedMetadata(key, id, data) == keyStream(key, id, data)
KeyStream(key, iv, src) == keyStream(key, iv, src)

\* bytes.Equal, as a verdict.
BytesEqual(x, y) == x = y

\* The rolling start number a main takes for its key.
RollingStartOf(v, now) ==
  IF v = 1 THEN NewENIntervalNumber(now) ELSE NewRollingStartNumber(now)

\* The second reading of the clock, 42 minutes on.
BroadcastTime(e) == TimeAdd(TimeAdd(e.now, e.elapsed), 42 * 60)

Encrypted(v, key, id, data) ==
  IF v = 1 THEN NewAssociatedEncryptedMetadata(key, id, data)
  ELSE XORKeyStreamAssociatedMetadata(key, id, data)

Decrypted(v, key, id, data) ==
  IF v = 1 THEN KeyStream(key, id, data)
  ELSE XORKeyStreamAssociatedMetadata(key, id, data)

DiagKey(k, w) == [tek |-> k, rollingStartNumber |-> w]

\* The three keys of the slice literal; the third draws a second random key.
DiagKeys(k, w) ==
  << DiagKey(k, w),
     DiagKey(k, Sub32(w, U32(EKRollingPeriod * 10 * 3))),
     DiagKey(NewTemporaryExposureKey(2), w) >>

\* The identifier the scan compares with: the first variant reads rpi and
\* aem themselves, the second its copies receivedRPI and receivedAEM.
ObservedRPI == IF variant = 1 THEN rpi ELSE receivedRPI
ObservedAEM == IF variant = 1 THEN aem ELSE receivedAEM

\* A faulty candidate: the offset is counted twice.
CandidateDoubled(w, j) == Add32(w, U32(2 * j))

\* The interval number of candidate offset j of a key that starts at w.
Candidate(w, j) == Add32(w, U32(j))

MainLocalsBlank ==
  /\ tek = Nil /\ rollingStartNumber = Nil /\ rpik = Nil /\ aemk = Nil
  /\ enin = Nil /\ rpi = Nil /\ aem = Nil /\ downloadedDiagKeys = Nil
  /\ receivedRPI = Nil /\ receivedAEM = Nil /\ d = 0
  /\ derivedRPIK = Nil /\ derivedAEMK = Nil /\ i = 0 /\ match = FALSE
  /\ scanned = Nil /\ log = Nil

MainIdle ==
  /\ env = Nil /\ variant = 0 /\ pc = "idle" /\ finished = Nil
  /\ MainLocalsBlank

GenerateKey ==
  /\ pc = "generate"
  /\ tek' = NewTemporaryExposureKey(1)
  /\ rollingStartNumber' = RollingStartOf(variant, env.now)
  /\ pc' = "derive"
  /\ UNCHANGED << sideVars, env, variant, rpik, aemk, enin, rpi, aem,
                  downloadedDiagKeys, receivedRPI, receivedAEM, d, derivedRPIK,
                  derivedAEMK, i, match, scanned, log, finished >>

DeriveKeys ==
  /\ pc = "derive"
  /\ rpik' = NewRollingProximityIdentifierKey(tek)
  /\ aemk' = NewAssociatedEncryptedMetadataKey(tek)
  /\ pc' = "broadcast"
  /\ UNCHANGED << sideVars, env, variant, tek, rollingStartNumber, enin, rpi,
                  aem, downloadedDiagKeys, receivedRPI, receivedAEM, d,
                  derivedRPIK, derivedAEMK, i, match, scanned, log, finished >>

Broadcast ==
  /\ pc = "broadcast"
  /\ enin' = NewENIntervalNumber(BroadcastTime(env))
  /\ rpi' = NewRollingProximityIdentifier(rpik, enin')
  /\ aem' = Encrypted(variant, aemk, rpi', Metadata)
  /\ pc' = "download"
  /\ UNCHANGED << sideVars, env, variant, tek, rollingStartNumber, rpik, aemk,
                  downloadedDiagKeys, receivedRPI, receivedAEM, d, derivedRPIK,
                  derivedAEMK, i, match, scanned, log, finished >>

Download ==
  /\ pc = "download"
  /\ downloadedDiagKeys' = DiagKeys(tek, rollingStartNumber)
  /\ receivedRPI' = IF variant = 1 THEN Nil ELSE rpi
  /\ receivedAEM' = IF variant = 1 THEN Nil ELSE aem
  /\ d' = 1
  /\ pc' = "range"
  /\ UNCHANGED << sideVars, env, variant, tek, rollingStartNumber, rpik, aemk,
                  enin, rpi, aem, derivedRPIK, derivedAEMK, i, match, scanned,
                  log, finished >>

\* for _, diagKey := range downloadedDiagKeys: the next key or the end.
Range ==
  /\ pc = "range"
  /\ IF d <= Len(downloadedDiagKeys)
       THEN /\ derivedRPIK' =
                 NewRollingProximityIdentifierKey(downloadedDiagKeys[d].tek)
            /\ derivedAEMK' =
                 NewAssociatedEncryptedMetadataKey(downloadedDiagKeys[d].tek)
            /\ match' = FALSE
            /\ i' = 0
            /\ scanned' = Nil
            /\ pc' = "scan"
            /\ UNCHANGED finished
       ELSE /\ pc' = "exit"
            /\ finished' = Append(finished,
                 [variant |-> variant, rollingStartNumber |-> rollingStartNumber,
                  keys |-> downloadedDiagKeys, log |-> log])
            /\ UNCHANGED << derivedRPIK, derivedAEMK, match, i, scanned >>
  /\ UNCHANGED << sideVars, env, variant, tek, rollingStartNumber, rpik, aemk,
                  enin, rpi, aem, downloadedDiagKeys, receivedRPI, receivedAEM,
                  d, log >>

\* One pass of for i := 0; i < EKRollingPeriod; i++ { ... }.
ScanCandidate ==
  /\ pc = "scan"
  /\ i < EKRollingPeriod
  /\ \E candidate \in { Candidate(downloadedDiagKeys[d].rollingStartNumber, i) } :
     \E derivedRPI \in { NewRollingProximityIdentifier(derivedRPIK, candidate) } :
        /\ scanned' = Append(scanned,
                             [offset |-> i, interval |-> candidate,
                              equal |-> BytesEqual(derivedRPI, ObservedRPI)])
        /\ IF BytesEqual(derivedRPI, ObservedRPI)
             THEN /\ log' = Append(log,
                       [key |-> d, match |-> TRUE, offset |-> i,
                        rpi |-> derivedRPI,
                        metadata |-> Decrypted(variant, derivedAEMK, derivedRPI,
                                               ObservedAEM)])
                  /\ match' = TRUE
                  /\ pc' = "after"
                  /\ UNCHANGED i
             ELSE /\ i' = i + 1
                  /\ UNCHANGED << log, match, pc >>
  /\ UNCHANGED << sideVars, env, variant, tek, rollingStartNumber, rpik, aemk,
                  enin, rpi, aem, downloadedDiagKeys, receivedRPI, receivedAEM,
                  d, derivedRPIK, derivedAEMK, finished >>

\* The loop condition fails: all candidates have been tried.
ScanEnd ==
  /\ pc = "scan"
  /\ ~(i < EKRollingPeriod)
  /\ pc' = "after"
  /\ UNCHANGED << sideVars, env, variant, tek, rollingStartNumber, rpik, aemk,
                  enin, rpi, aem, downloadedDiagKeys, receivedRPI, receivedAEM,
                  d, derivedRPIK, derivedAEMK, i, match, scanned, log, finished >>

\* if !match { log "No match" }, and on to the next key.
AfterScan ==
  /\ pc = "after"
  /\ log' = IF ~match
              THEN Append(log, [key |-> d, match |-> FALSE, offset |-> Nil,
                                rpi |-> Nil, metadata |-> Nil])
              ELSE log
  /\ d' = d + 1
  /\ pc' = "range"
  /\ UNCHANGED << sideVars, env, variant, tek, rollingStartNumber, rpik, aemk,
                  enin, rpi, aem, downloadedDiagKeys, receivedRPI, receivedAEM,
                  derivedRPIK, derivedAEMK, i, match, scanned, finished >>

\* The first variant has ended: the second is run on the same clock
\* readings and the same random keys.
RunSecondVariant ==
  /\ pc = "exit"
  /\ variant = 1
  /\ variant' = 2
  /\ pc' = "generate"
  /\ tek' = Nil /\ rollingStartNumber' = Nil /\ rpik' = Nil /\ aemk' = Nil
  /\ enin' = Nil /\ rpi' = Nil /\ aem' = Nil /\ downloadedDiagKeys' = Nil
  /\ receivedRPI' = Nil /\ receivedAEM' = Nil /\ d' = 0
  /\ derivedRPIK' = Nil /\ derivedAEMK' = Nil /\ i' = 0 /\ match' = FALSE
  /\ scanned' = Nil /\ log' = Nil
  /\ UNCHANGED << sideVars, env, finished >>

(***************************************************************************)
(* A caller of XORKeyStreamAssociatedMetadata (crypto.go:97-116) that      *)
(* encrypts a plaintext and decrypts the outcome with the same key and     *)
(* identifier.                                                             *)
(***************************************************************************)
\* The longest plaintext sampled: two cipher blocks and a byte.
MaxPlain == 33

PlainText(n) == Bytes([j \in 1..n |-> (j * 37 + 11) % 256])

\* Initial counter blocks: all zero, all ones (the counter wraps at once),
\* and one whose low byte carries into the next.
SampleIVs ==
  { Zeros(16), Bytes([j \in 1..16 |-> 255]), Zeros(14) \o << 1, 255 >> }

TripIdle == [pc |-> "idle", key |-> Nil, id |-> Nil, plain |-> Nil,
             cipher |-> Nil, back |-> Nil]

TripCalls ==
  \E key \in SampleTEKs, id \in SampleIVs, n \in 0..MaxPlain :
    trip = [pc |-> "call", key |-> key, id |-> id, plain |-> PlainText(n),
            cipher |-> Nil, back |-> Nil]

EncryptMetadata ==
  /\ trip.pc = "call"
  /\ trip' = [trip EXCEPT
                !.pc = "encrypted",
                !.cipher = XORKeyStreamAssociatedMetadata(trip.key, trip.id,
                                                          trip.plain)]
  /\ UNCHANGED << clock, pool, cmp, mainVars >>

DecryptMetadata ==
  /\ trip.pc = "encrypted"
  /\ trip' = [trip EXCEPT
                !.pc = "decrypted",
                !.back = XORKeyStreamAssociatedMetadata(trip.key, trip.id,
                                                        trip.cipher)]
  /\ UNCHANGED << clock, pool, cmp, mainVars >>

(***************************************************************************)
(* bytes.Equal(derivedRPI[:], receivedRPI[:]) (part_000:177, and :74 in    *)
(* the first variant) step by step.  bytes.Equal compares the lengths and  *)
(* hands over to the runtime's memequal, which compares a chunk at a time  *)
(* and returns at the first chunk that differs; the width of a chunk is    *)
(* the build's choice.                                                     *)
(***************************************************************************)
CompareWidths == { 1, 8, 16 }

FlipByte(x, p) == [x EXCEPT ![p] = (x[p] + 1) % 256]

CmpIdle == [pc |-> "idle", candidate |-> Nil, observed |-> Nil, width |-> 0,
            pos |-> 0, inspected |-> 0, equal |-> FALSE]

\* Identifiers of the first interval of a day of 2026.
SampleRPIs ==
  { NewRollingProximityIdentifier(NewRollingProximityIdentifierKey(key),
                                  Mul32(U32(20720), EKRollingPeriod)) :
      key \in SampleTEKs }

CmpCalls ==
  \E x \in SampleRPIs, width \in CompareWidths :
    \E y \in { x } \cup { FlipByte(x, p) : p \in 1..16 } :
      cmp = [pc |-> "compare", candidate |-> x, observed |-> y,
             width |-> width, pos |-> 1, inspected |-> 0, equal |-> FALSE]

CompareChunk ==
  /\ cmp.pc = "compare"
  /\ LET last == cmp.pos + cmp.width - 1
         same == SubSeq(cmp.candidate, cmp.pos, last)
                   = SubSeq(cmp.observed, cmp.pos, last)
     IN cmp' = [cmp EXCEPT
                  !.inspected = cmp.inspected + cmp.width,
                  !.pos = last + 1,
                  !.equal = same,
                  !.pc = IF same /\ last < 16 THEN "compare" ELSE "done"]
  /\ UNCHANGED << clock, trip, pool, mainVars >>

(***************************************************************************)
(* The matching of one diagnosis key against one observed broadcast        *)
(* (part_000:167-192), run for several pairs by workers that take their    *)
(* steps in any order.  A worker holds its locals; what make() allocates   *)
(* (crypto.go:111) lies in a heap all workers share.                       *)
(***************************************************************************)
Workers == { "w1", "w2" }

DayStart == Mul32(U32(20720), EKRollingPeriod)

\* What a sender with key s broadcasts at an interval: the identifier and
\* the metadata encrypted under it.
Sealed(key, id, data) ==
  << id, XORKeyStreamAssociatedMetadata(key, id, data) >>

BroadcastOf(s, num, data) ==
  Sealed(NewAssociatedEncryptedMetadataKey(s),
         NewRollingProximityIdentifier(NewRollingProximityIdentifierKey(s), num),
         data)

Pair(key, w, seen) == [tek |-> key, start |-> w, rpi |-> seen[1], aem |-> seen[2]]

\* Two pairs that match, with different metadata, and two that do not:
\* another key, and the same key three days earlier.  Each is the sender's
\* key, offset and metadata, and the downloaded key and the shift of its
\* rolling start number.
SampleJobs ==
  << << 1, 1, Metadata, 1, 0 >>,
     << 2, 0, << 7, 7, 7, 7, 7, 7, 7, 7, 7, 7, 7, 7, 7, 7, 7, 7, 7 >>, 2, 0 >>,
     << 1, 1, Metadata, 2, 0 >>,
     << 1, 1, Metadata, 1, EKRollingPeriod * 10 * 3 >> >>

PairOfJob(x) ==
  Pair(SampleTEKSeq[x[4]], Sub32(DayStart, U32(x[5])),
       BroadcastOf(SampleTEKSeq[x[1]], Add32(DayStart, U32(x[2])), x[3]))

Verdict(found, j, data) == [match |-> found, offset |-> j, metadata |-> data]

SameVerdict(x, y) ==
  /\ x.match = y.match
  /\ x.match => (x.offset = y.offset /\ x.metadata = y.metadata)

\* The offsets in [0, 144) at which the key's identifier is the observed one.
MatchingOffsets(key, w, id) ==
  { j \in 0..(EKRollingPeriod - 1) :
      BytesEqual(NewRollingProximityIdentifier(key, Add32(w, U32(j))), id) }

Least(S) == CHOOSE j \in S : \A h \in S : j <= h

\* The loop of part_000:173-191 run alone on one pair: the first offset
\* that matches, with the metadata decrypted there.
VerdictAt(hits, p) ==
  IF hits = {} THEN Verdict(FALSE, Nil, Nil)
  ELSE Verdict(TRUE, Least(hits),
               XORKeyStreamAssociatedMetadata(
                 NewAssociatedEncryptedMetadataKey(p.tek), p.rpi, p.aem))

TryMatch(p) ==
  VerdictAt(MatchingOffsets(NewRollingProximityIdentifierKey(p.tek),
                            p.start, p.rpi), p)

\* A worker is handed a pair; alone is what the pair gives by itself.
WorkerStart(p) ==
  [job |-> p, alone |-> TryMatch(p), pc |-> "derive", rpik |-> Nil,
   aemk |-> Nil, i |-> 0, rpi |-> Nil, buf |-> 0, result |-> Nil]

SampleWork ==
  Bytes([n \in 1..Len(SampleJobs) |-> WorkerStart(PairOfJob(SampleJobs[n]))])

\* A faulty allocation: one buffer, kept between calls.
ReuseBuffer(heap) == 1

\* make([]byte, len(src)): a buffer no one holds yet.
MakeBuffer(heap) == Len(heap) + 1

PoolIdle == [work |-> << >>, heap |-> << >>]

\* At most one worker is given a pair that goes through all 144 candidates.
PoolStart(a, work) ==
  /\ Cardinality({ w \in Workers : ~work[a[w]].alone.match }) <= 1
  /\ pool = [work |-> [w \in Workers |-> work[a[w]]], heap |-> << >>]

PoolCalls ==
  \E a \in [Workers -> 1..Len(SampleJobs)] : PoolStart(a, SampleWork)

PairOf(w) == pool.work[w].job

WorkerDerive(w) ==
  /\ pool.work[w].pc = "derive"
  /\ pool' = [pool EXCEPT
                !.work[w].rpik = NewRollingProximityIdentifierKey(PairOf(w).tek),
                !.work[w].aemk = NewAssociatedEncryptedMetadataKey(PairOf(w).tek),
                !.work[w].pc = "scan"]
  /\ UNCHANGED << clock, trip, cmp, mainVars >>

WorkerScan(w) ==
  /\ pool.work[w].pc = "scan"
  /\ pool.work[w].i < EKRollingPeriod
  /\ \E id \in { NewRollingProximityIdentifier(
                     pool.work[w].rpik,
                     Candidate(PairOf(w).start, pool.work[w].i)) } :
       pool' = IF BytesEqual(id, PairOf(w).rpi)
                 THEN [pool EXCEPT !.work[w].rpi = id, !.work[w].pc = "make"]
                 ELSE [pool EXCEPT !.work[w].i = pool.work[w].i + 1]
  /\ UNCHANGED << clock, trip, cmp, mainVars >>

WorkerNoMatch(w) ==
  /\ pool.work[w].pc = "scan"
  /\ ~(pool.work[w].i < EKRollingPeriod)
  /\ pool' = [pool EXCEPT !.work[w].result = Verdict(FALSE, Nil, Nil),
                          !.work[w].pc = "done"]
  /\ UNCHANGED << clock, trip, cmp, mainVars >>

\* dst := make([]byte, len(src))
WorkerMake(w) ==
  /\ pool.work[w].pc = "make"
  /\ pool' = [pool EXCEPT
                !.work[w].buf = MakeBuffer(pool.heap),
                !.work[w].pc = "xor",
                !.heap = Append(pool.heap,
                                [owner |-> w,
                                 bytes |-> Zeros(Len(PairOf(w).aem))])]
  /\ UNCHANGED << clock, trip, cmp, mainVars >>

\* stream.XORKeyStream(dst, src)
WorkerXor(w) ==
  /\ pool.work[w].pc = "xor"
  /\ pool' = [pool EXCEPT
                !.work[w].pc = "return",
                !.heap[pool.work[w].buf].bytes =
                   XORKeyStream(NewCipher(pool.work[w].aemk), pool.work[w].rpi,
                                << >>, PairOf(w).aem)]
  /\ UNCHANGED << clock, trip, cmp, mainVars >>

\* return dst, nil, and the verdict of the loop
WorkerReturn(w) ==
  /\ pool.work[w].pc = "return"
  /\ pool' = [pool EXCEPT
                !.work[w].result =
                   Verdict(TRUE, pool.work[w].i,
                           pool.heap[pool.work[w].buf].bytes),
                !.work[w].pc = "done"]
  /\ UNCHANGED << clock, trip, cmp, mainVars >>

(***************************************************************************)
(* Runs.                                                                   *)
(***************************************************************************)
SideIdle ==
  /\ clock = ClockIdle /\ trip = TripIdle /\ pool = PoolIdle /\ cmp = CmpIdle

\* Seconds that may pass between the two readings of the clock.
MaxElapsed == 1

\* Clock readings of a day of 2026: its first second; the last second of
\* its second interval; the first and the last second of the interval 42
\* minutes before the day's last one; the first second of its last interval.
DemoTimes ==
  { TimeOf(FALSE, 20720, 0, 0),
    TimeOf(FALSE, 20720, 1, 60 * 10 - 1),
    TimeOf(FALSE, 20720, EKRollingPeriod - 5, 0),
    TimeOf(FALSE, 20720, EKRollingPeriod - 5, 60 * 10 - 1),
    TimeOf(FALSE, 20720, EKRollingPeriod - 1, 0) }

\* A demo main is started: its first variant, on a clock and two different
\* keys of crypto/rand.
Init ==
  /\ SideIdle
  /\ \E now \in DemoTimes, e \in 0..MaxElapsed, k1 \in SampleTEKs :
       \E k2 \in SampleTEKs \ { k1 } :
         env = [now |-> now, elapsed |-> e, rand |-> << k1, k2 >>]
  /\ variant = 1
  /\ pc = "generate"
  /\ finished = Nil
  /\ MainLocalsBlank

Next ==
  \/ GenerateKey \/ DeriveKeys \/ Broadcast \/ Download
  \/ Range \/ ScanCandidate \/ ScanEnd \/ AfterScan
  \/ RunSecondVariant

Spec == Init /\ [][Next]_vars

\* The callers of the two clock functions.
NextClock == CallNewENIntervalNumber \/ CallNewRollingStartNumber

ClockInit == ClockCalls /\ trip = TripIdle /\ pool = PoolIdle /\ cmp = CmpIdle
             /\ MainIdle

SpecClock == ClockInit /\ [][NextClock]_vars

\* The matching loop of the second variant on one diagnosis key: a sender
\* with key s broadcasts at interval w + k, and the key downloaded is s with
\* the rolling start number w moved by a shift.
MatchStarts == { DayStart, Sub32(U32(0), U32(100)) }

MatchShifts ==
  { 0, 1, -1, EKRollingPeriod * 3, -(EKRollingPeriod * 3) }

MatchMetadata == { Nil, Metadata }

Shifted(w, sh) == IF sh < 0 THEN Sub32(w, U32(-sh)) ELSE Add32(w, U32(sh))

BroadcastAt(e) == Add32(e.start, U32(e.offset))

MatchInit ==
  /\ SideIdle
  /\ \E s \in SampleTEKs, w \in MatchStarts, k \in SampleOffsets,
        m \in MatchMetadata, sh \in MatchShifts :
       \E id \in { NewRollingProximityIdentifier(
                      NewRollingProximityIdentifierKey(s), Add32(w, U32(k))) } :
          /\ env = [tek |-> s, start |-> w, offset |-> k, metadata |-> m,
                    shift |-> sh]
          /\ downloadedDiagKeys = << DiagKey(s, Shifted(w, sh)) >>
          /\ receivedRPI = id
          /\ receivedAEM = XORKeyStreamAssociatedMetadata(
                             NewAssociatedEncryptedMetadataKey(s), id, m)
  /\ variant = 2 /\ pc = "range" /\ d = 1 /\ finished = Nil
  /\ tek = Nil /\ rollingStartNumber = Nil /\ rpik = Nil /\ aemk = Nil
  /\ enin = Nil /\ rpi = Nil /\ aem = Nil
  /\ derivedRPIK = Nil /\ derivedAEMK = Nil /\ i = 0 /\ match = FALSE
  /\ scanned = Nil /\ log = Nil

NextMatch == Range \/ ScanCandidate \/ ScanEnd \/ AfterScan

SpecMatch == MatchInit /\ [][NextMatch]_vars

\* The round trips.
NextTrip == EncryptMetadata \/ DecryptMetadata

TripInit == TripCalls /\ clock = ClockIdle /\ pool = PoolIdle /\ cmp = CmpIdle
            /\ MainIdle

SpecRoundTrip == TripInit /\ [][NextTrip]_vars

\* The workers.
NextWorkers ==
  \E w \in Workers :
    \/ WorkerDerive(w) \/ WorkerScan(w) \/ WorkerNoMatch(w)
    \/ WorkerMake(w) \/ WorkerXor(w) \/ WorkerReturn(w)

WorkersInit == PoolCalls /\ clock = ClockIdle /\ trip = TripIdle
               /\ cmp = CmpIdle /\ MainIdle

SpecWorkers == WorkersInit /\ [][NextWorkers]_vars

\* The comparisons.
CompareInit == CmpCalls /\ clock = ClockIdle /\ trip = TripIdle
               /\ pool = PoolIdle /\ MainIdle

SpecCompare == CompareInit /\ [][CompareChunk]_vars

(***************************************************************************)
(* C4 (window alignment): for every time t, NewRollingStartNumber(t) is a  *)
(* multiple of 144 and, as numbers, NewRollingStartNumber(t) <=            *)
(* NewENIntervalNumber(t) < NewRollingStartNumber(t) + 144.                *)
(***************************************************************************)
WindowAlignment ==
  clock.pc = "done" =>
    LET en == clock.enin.value
        st == clock.start.value
    IN /\ Mod32(st, EKRollingPeriod) = 0
       /\ Leq32(st, en)
       /\ Less32(Sub32(en, st), U32(EKRollingPeriod))

\* Reached: a pre-epoch time whose interval number wraps into the last,
\* short window of the uint32 range.
WindowAlignmentWitness ==
  /\ clock.pc = "done"
  /\ clock.t.neg
  /\ clock.enin.value = << 65535, 65535 >>
  /\ clock.start.value = Sub32(U32(0), U32(112))

(***************************************************************************)
(* C6 (caller-input error): a call of NewENIntervalNumber or               *)
(* NewRollingStartNumber with a time before the epoch ends in an error     *)
(* outcome, and returns no ordinary value.                                 *)
(***************************************************************************)
PreEpochIsError ==
  (clock.pc = "done" /\ clock.t.neg) =>
    (clock.enin.panicked /\ clock.start.panicked)

(***************************************************************************)
(* C2 (batch scenario): when the second variant of the demo main has run,  *)
(* exactly one of its three diagnosis keys has matched the broadcast, and  *)
(* it is the first, the one commented "Should match".                      *)
(***************************************************************************)
BatchScenario ==
  (pc = "exit" /\ variant = 2) =>
    /\ Len(log) = 3
    /\ log[1].match /\ ~log[2].match /\ ~log[3].match

(***************************************************************************)
(* C10 (variant equivalence), as stated: run on the same clock and keys,   *)
(* the two variants compute the same rollingStartNumber and the same three *)
(* diagnosis keys, and give each key the same verdict, offset and          *)
(* metadata.                                                               *)
(***************************************************************************)
SameLog(x, y) ==
  /\ Len(x) = Len(y)
  /\ \A j \in 1..Len(x) : SameVerdict(x[j], y[j])

PositiveMatch ==
  (pc = "exit" /\ env.shift = 0) =>
    /\ Len(log) = 1
    /\ log[1].match
    /\ log[1].offset = env.offset
    /\ log[1].metadata = env.metadata

\* Reached: a match at the last offset, where w + k has wrapped past 2^32.
PositiveMatchWitness ==
  /\ pc = "exit" /\ env.shift = 0
  /\ env.start = Sub32(U32(0), U32(100))
  /\ env.offset = EKRollingPeriod - 1
  /\ env.metadata = Metadata
  /\ log[1].match /\ log[1].offset = EKRollingPeriod - 1

(***************************************************************************)
(* C3 (stale window): the matching loop run on the diagnosis key (s, w')   *)
(* against an identifier of s at interval w + k reports no match whenever  *)
(* w + k is none of w' + 0 .. w' + 143 in uint32 arithmetic, and so when   *)
(* w' is w moved by three rolling periods, either way.                     *)
(***************************************************************************)
InCandidates ==
  Less32(Sub32(BroadcastAt(env), downloadedDiagKeys[1].rollingStartNumber),
         U32(EKRollingPeriod))

StaleWindow ==
  pc = "exit" =>
    /\ (env.shift \in { EKRollingPeriod * 3, -(EKRollingPeriod * 3) })
         => ~InCandidates
    /\ ~InCandidates => (Len(log) = 1 /\ ~log[1].match)

\* Reached: no match for a key three periods on, whose rolling start number
\* has wrapped past 2^32, after all 144 candidates.
StaleWindowWitness ==
  /\ pc = "exit" /\ env.shift = EKRollingPeriod * 3
  /\ env.start = Sub32(U32(0), U32(100))
  /\ downloadedDiagKeys[1].rollingStartNumber = U32(EKRollingPeriod * 3 - 100)
  /\ Len(scanned) = EKRollingPeriod
  /\ ~log[1].match

(***************************************************************************)
(* C8 (scan order and stopping): the loop evaluates the offsets 0, 1, ...  *)
(* in this order, each at interval w + offset, and at most 144 of them; it *)
(* goes on only past candidates that differ from the observed identifier;  *)
(* it reports a match at the first candidate that equals it, whose offset  *)
(* it logs, and reports no match, and goes on to the end of the run, when  *)
(* all 144 candidates differ.                                              *)
(***************************************************************************)
ScanOrder ==
  /\ Len(scanned) <= EKRollingPeriod
  /\ \A j \in 1..Len(scanned) : scanned[j].offset = j - 1
  /\ \A j \in 1..(Len(scanned) - 1) : ~scanned[j].equal
  /\ pc \in { "scan", "after" } =>
       \A j \in 1..Len(scanned) :
         scanned[j].interval
           = Add32(downloadedDiagKeys[d].rollingStartNumber, U32(j - 1))
  /\ pc = "scan" =>
       (i = Len(scanned) /\ \A j \in 1..Len(scanned) : ~scanned[j].equal)
  /\ (pc = "after" /\ match) =>
       /\ scanned[Len(scanned)].equal
       /\ log[Len(log)].match
       /\ log[Len(log)].offset = Len(scanned) - 1
       /\ BytesEqual(
            NewRollingProximityIdentifier(
              NewRollingProximityIdentifierKey(downloadedDiagKeys[d].tek),
              Add32(downloadedDiagKeys[d].rollingStartNumber,
                    U32(Len(scanned) - 1))),
            ObservedRPI)
  /\ (pc = "after" /\ ~match) =>
       /\ Len(scanned) = EKRollingPeriod
       /\ ~scanned[Len(scanned)].equal
  /\ pc = "exit" =>
       /\ Len(log) = Len(downloadedDiagKeys)
       /\ log[Len(log)].match = scanned[Len(scanned)].equal

\* Reached: a match at the last of the 144 candidates.
ScanOrderWitness ==
  /\ pc = "after" /\ match
  /\ Len(scanned) = EKRollingPeriod
  /\ log[Len(log)].offset = EKRollingPeriod - 1

(***************************************************************************)
(* C5 (round trip): XORKeyStreamAssociatedMetadata applied twice with the  *)
(* same key and identifier gives the plaintext back, whatever its length,  *)
(* and the ciphertext in between is as long as the plaintext.              *)
(***************************************************************************)
RoundTrip ==
  /\ trip.pc \in { "encrypted", "decrypted" } =>
       Len(trip.cipher) = Len(trip.plain)
  /\ trip.pc = "decrypted" => trip.back = trip.plain

\* Reached: a plaintext of two blocks and a byte, under a counter that wraps.
RoundTripWitness ==
  /\ trip.pc = "decrypted"
  /\ Len(trip.plain) = 33
  /\ trip.id = Bytes([j \in 1..16 |-> 255])
  /\ trip.cipher # trip.plain
  /\ trip.back = trip.plain

(***************************************************************************)
(* C7 (concurrency): whatever the order of the workers' steps, each pair's *)
(* result (match, offset, metadata) is the result of evaluating that pair  *)
(* alone, and the buffer a worker writes and returns is one it allocated   *)
(* itself.                                                                 *)
(***************************************************************************)
WorkersIndependent ==
  \A w \in DOMAIN pool.work :
    /\ pool.work[w].pc = "done" =>
         SameVerdict(pool.work[w].result, pool.work[w].alone)
    /\ pool.work[w].pc \in { "xor", "return" } =>
         pool.heap[pool.work[w].buf].owner = w

\* Reached: both workers have decrypted, each its own metadata.
WorkersIndependentWitness ==
  /\ DOMAIN pool.work = Workers
  /\ \A w \in Workers : pool.work[w].pc = "done" /\ pool.work[w].result.match
  /\ pool.work["w1"].result.metadata # pool.work["w2"].result.metadata
  /\ Len(pool.heap) = 2

(***************************************************************************)
(* C9 (fixed-time comparison): the comparison of a candidate identifier    *)
(* with the observed one inspects all 16 bytes, wherever the first byte    *)
(* that differs is.                                                        *)
(***************************************************************************)
FixedTimeCompare ==
  cmp.pc = "done" => cmp.inspected = 16

====
